---- MODULE Spec2Model ----
(***************************************************************************)
(* A model of pynml: the typed entity/relation classes of lib/pynml/nml.py *)
(* and the namespace manager of lib/pynml/manager.py.                      *)
(*                                                                         *)
(* Objects live in `heap`, a sequence whose index is the object's identity *)
(* (what Python's `is` and id() see).  Every method is a pure operator     *)
(* that maps the state before the call to an outcome: the state after it,  *)
(* the exception it raised ("none" when it returned) and what it returned. *)
(* An action applies one such operator and records the call in `last`.     *)
(***************************************************************************)
EXTENDS Integers, Sequences, FiniteSets, TLC

VARIABLES heap, mgr, last

vars == <<heap, mgr, last>>

-----------------------------------------------------------------------------
(* Values *)

\* nml.py:67, the sentinel of an attribute that was not set
unset == "<unset>"

\* Python's None as an attribute value, and as "keyword not passed"
PyNone == "<None>"

\* Python's None in a tuple slot of a relation, or as a returned object
NoObj == 0

\* datetime.now().replace(microsecond=0).isoformat(), nml.py:203
Now == "2016-01-01T00:00:00"

\* Strings rfc3986.is_valid_uri rejects (a space is no URI character).
InvalidUris == {"not a uri"}

IsValidUri(s) == s \notin InvalidUris

\* Python truthiness: `not name` holds of "" and of None.
Falsy(s) == s \in {"", PyNone}

\* str(id(self)): a decimal string, distinct for distinct live objects.
IdString(n) == ToString(n)

-----------------------------------------------------------------------------
(* The class table *)

NetworkObjectKinds ==
    {"Node", "Port", "Link", "SwitchingService", "AdaptationService",
     "DeAdaptationService", "Topology", "PortGroup", "LinkGroup",
     "BidirectionalPort", "BidirectionalLink"}

PlainKinds ==
    {"Environment", "Location", "Lifetime", "Label", "LabelGroup",
     "OrderedList", "ListItem"}

Kinds == NetworkObjectKinds \cup PlainKinds

EncodingKinds == {"Port", "Link", "SwitchingService"}

AdaptationKinds == {"AdaptationService", "DeAdaptationService"}

\* self.attributes after __init__, in the order of the append calls.
Attributes(k) ==
    IF k \in NetworkObjectKinds
    THEN <<"name", "identifier", "version">> \o
         (IF k \in EncodingKinds THEN <<"encoding">>
          ELSE IF k \in AdaptationKinds THEN <<"adaptation_function">>
          ELSE <<>>)
    ELSE IF k = "Location"
    THEN <<"name", "identifier", "longitude", "latitude", "altitude",
           "unlocode", "address">>
    ELSE IF k = "Lifetime" THEN <<"start", "end">>
    ELSE IF k \in {"Label", "LabelGroup"} THEN <<"labeltype", "value">>
    ELSE <<>>

AttributeSet(k) == {Attributes(k)[i] : i \in 1..Len(Attributes(k))}

\* The attributes whose setter is a validating property of the class.
NameKinds == NetworkObjectKinds \cup {"Location"}

\* A relation kept in an OrderedDict keyed by identifier (width 0) or in a
\* tuple of `width` slots; `allowed` are the classes of the __class__ test.
Aggregation(name, allowed, error) ==
    [name |-> name, width |-> 0, allowed |-> allowed, error |-> error]

Composition(name, width, allowed, error) ==
    [name |-> name, width |-> width, allowed |-> allowed, error |-> error]

PortLike == {"Port", "PortGroup"}

LinkLike == {"Link", "LinkGroup"}

ExistsDuring == Aggregation("existsDuring", {"Lifetime"},
                         "RelationExistsDuringError")

\* NetworkObject.__init__: existsDuring, isAlias, locatedAt
NetworkObjectRelations ==
    <<ExistsDuring,
      Aggregation("isAlias", {"NetworkObject"},
                         "RelationIsAliasError"),
      Composition("locatedAt", 1, {"Location"},
                         "RelationLocatedAtError")>>

\* The relations a concrete class registers in its own __init__.
OwnRelations(k) ==
    CASE k = "Node" ->
           <<Aggregation("hasInboundPort", PortLike,
                         "RelationHasInboundPortError"),
             Aggregation("hasOutboundPort", PortLike,
                         "RelationHasOutboundPortError"),
             Aggregation("hasService", {"SwitchingService"},
                         "RelationHasServiceError"),
             Aggregation("implementedBy", {"Node"},
                         "RelationImplementedByError")>>
      [] k = "Port" ->
           <<Composition("hasLabel", 1, {"Label"},
                         "RelationHasLabelError"),
             Aggregation("hasService", AdaptationKinds,
                         "RelationHasServiceError"),
             Aggregation("isSink", {"Link"},
                         "RelationIsSinkError"),
             Aggregation("isSource", {"Link"},
                         "RelationIsSourceError")>>
      [] k = "Link" ->
           <<Composition("hasLabel", 1, {"Label"},
                         "RelationHasLabelError")>>
      [] k = "SwitchingService" ->
           <<Aggregation("hasInboundPort", PortLike,
                         "RelationHasInboundPortError"),
             Aggregation("hasOutboundPort", PortLike,
                         "RelationHasOutboundPortError"),
             Aggregation("providesLink", LinkLike,
                         "RelationProvidesLinkError")>>
      [] k \in AdaptationKinds ->
           <<Aggregation("canProvidePort", PortLike,
                         "RelationCanProvidePortError"),
             ExistsDuring,
             Aggregation("providesPort", PortLike,
                         "RelationProvidesPortError")>>
      [] k = "Topology" ->
           <<ExistsDuring,
             Aggregation("hasNode", {"Node"},
                         "RelationHasNodeError"),
             Aggregation("hasInboundPort", PortLike,
                         "RelationHasInboundPortError"),
             Aggregation("hasOutboundPort", PortLike,
                         "RelationHasOutboundPortError"),
             Aggregation("hasService", {"SwitchingService"},
                         "RelationHasServiceError"),
             Aggregation("hasEnvironment", {"Environment"},
                         "RelationHasEnvironmentError"),
             Aggregation("hasTopology", {"Topology"},
                         "RelationHasTopologyError")>>
      [] k = "PortGroup" ->
           <<ExistsDuring,
             Composition("hasLabelGroup", 1, {"Lifetime"},
                         "RelationHasLabelGroupError"),
             Aggregation("hasPort", PortLike,
                         "RelationHasPortError"),
             Aggregation("isSink", {"LinkGroup"},
                         "RelationIsSinkError"),
             Aggregation("isSource", {"LinkGroup"},
                         "RelationIsSourceError")>>
      [] k = "LinkGroup" ->
           <<ExistsDuring,
             Composition("hasLabelGroup", 1, {"Lifetime"},
                         "RelationHasLabelGroupError"),
             Aggregation("hasLink", PortLike,
                         "RelationHasLinkError"),
             Aggregation("isSerialCompoundLink", PortLike,
                         "RelationIsSerialCompoundLinkError")>>
      [] k = "BidirectionalPort" ->
           <<ExistsDuring,
             Composition("hasPort", 2, PortLike,
                         "RelationHasPortError")>>
      [] k = "BidirectionalLink" ->
           <<ExistsDuring,
             Composition("hasLink", 2, LinkLike,
                         "RelationHasLinkError")>>
      [] OTHER -> <<>>

IsInherited(d) == \E i \in 1..Len(NetworkObjectRelations) :
                      NetworkObjectRelations[i].name = d.name

\* A registration order with the relations of the class itself first and
\* the relations of NetworkObject after them.
DeclaredRelationsOwnFirst(k) ==
    IF k \in NetworkObjectKinds
    THEN SelectSeq(OwnRelations(k), LAMBDA d : ~IsInherited(d)) \o
         NetworkObjectRelations
    ELSE <<>>

\* self.relations after __init__: an OrderedDict, so a key assigned again by
\* the subclass keeps the position of its first assignment.
DeclaredRelations(k) ==
    IF k \in NetworkObjectKinds
    THEN NetworkObjectRelations \o
         SelectSeq(OwnRelations(k), LAMBDA d : ~IsInherited(d))
    ELSE <<>>

RelationTable == [k \in Kinds |-> DeclaredRelations(k)]

Relations(k) == RelationTable[k]

RelationNameTable ==
    [k \in Kinds |-> {RelationTable[k][i].name : i \in 1..Len(RelationTable[k])}]

RelationNames(k) == RelationNameTable[k]

DeclTable ==
    [k \in Kinds |->
        [r \in RelationNameTable[k] |->
            CHOOSE d \in {RelationTable[k][i] : i \in 1..Len(RelationTable[k])} :
                d.name = r]]

\* The declaration of relation r of class k.
Decl(k, r) == DeclTable[k][r]

\* The storage a relation starts with: OrderedDict() or (None, ...).
EmptyStore(d) == [i \in 1..d.width |-> NoObj]

-----------------------------------------------------------------------------
(* Objects and outcomes *)

Objects(h) == 1..Len(h)

KindOf(h, x) == h[x].kind

\* hasattr(x, a) for a declared attribute: the classes set nothing else.
HasAttr(h, x, a) == a \in DOMAIN h[x].attrs

\* A call that returned: the heap after it and the value it returned.
Return(h, ret, obj) == [heap |-> h, err |-> "none", ret |-> ret, obj |-> obj]

\* A call that raised `e`, with the heap as the call left it.
Raise(h, e) == [heap |-> h, err |-> e, ret |-> PyNone, obj |-> NoObj]

-----------------------------------------------------------------------------
(* Attributes: the property setters and the constructors *)

\* The test a property setter runs before it stores, "none" when it passes.
\* Attributes without a validating property are plain assignments.
SetterError(k, a, v) ==
    IF a = "name" /\ k \in NameKinds /\ v # unset /\ Falsy(v)
    THEN "AttributeNameError"
    ELSE IF a = "identifier" /\ k \in NameKinds /\ v # unset /\ ~IsValidUri(v)
    THEN "AttributeIdError"
    ELSE IF a = "encoding" /\ k \in EncodingKinds /\ v # unset /\ ~IsValidUri(v)
    THEN "AttributeEncodingError"
    ELSE "none"

StoreAttr(h, x, a, v) == [h EXCEPT ![x].attrs[a] = v]

\* A setter that stores first and validates afterwards.
SetAttrStoreFirst(h, x, a, v) ==
    LET e == SetterError(KindOf(h, x), a, v)
    IN  IF e # "none" THEN Raise(StoreAttr(h, x, a, v), e)
        ELSE Return(StoreAttr(h, x, a, v), PyNone, NoObj)

\* A setter that hands the unset object to the validator like any value.
SetAttrValidatingUnset(h, x, a, v) ==
    LET e == SetterError(KindOf(h, x), a, IF v = unset THEN PyNone ELSE v)
    IN  IF e # "none" THEN Raise(h, e)
        ELSE Return(StoreAttr(h, x, a, v), PyNone, NoObj)

\* x.<a> = v
SetAttr(h, x, a, v) ==
    LET e == SetterError(KindOf(h, x), a, v)
    IN  IF e # "none" THEN Raise(h, e)
        ELSE Return(StoreAttr(h, x, a, v), PyNone, NoObj)

\* A keyword argument of a constructor call, None when it was not passed.
Arg(kw, a) == IF a \in DOMAIN kw THEN kw[a] ELSE PyNone

\* The value __init__ hands to the setter of attribute a of the n-th object.
InitValue(k, a, kw, n) ==
    LET v == Arg(kw, a)
    IN  IF v # PyNone THEN v
        ELSE IF a = "name"
        THEN (IF k = "Location" THEN k \o "<" \o IdString(n) \o ">"
              ELSE k \o "(" \o IdString(n) \o ")")
        ELSE IF a = "identifier" THEN IdString(n)
        ELSE IF a \in {"version", "start", "end"} THEN Now
        ELSE IF a \in {"labeltype", "value", "adaptation_function"} THEN PyNone
        ELSE unset

\* The first setter of __init__ that raises, in the order of the assignments.
InitError(k, kw, n) ==
    LET as  == Attributes(k)
        bad == {i \in 1..Len(as) :
                   SetterError(k, as[i], InitValue(k, as[i], kw, n)) # "none"}
    IN  IF bad = {} THEN "none"
        ELSE LET i == CHOOSE j \in bad : \A l \in bad : j <= l
             IN  SetterError(k, as[i], InitValue(k, as[i], kw, n))

\* The object a constructor call builds: attributes set, relations empty, and
\* the keywords the class does not name kept in metadata.
NewObject(k, kw, n) ==
    [kind     |-> k,
     attrs    |-> [a \in AttributeSet(k) |-> InitValue(k, a, kw, n)],
     rels     |-> [r \in RelationNames(k) |-> EmptyStore(Decl(k, r))],
     metadata |-> [a \in DOMAIN kw \ AttributeSet(k) |-> kw[a]]]

\* A constructor that stores its keywords without going through the setters.
ConstructUnvalidated(h, k, kw) ==
    LET n == Len(h) + 1
    IN  Return(Append(h, NewObject(k, kw, n)), PyNone, n)

\* k(**kw)
Construct(h, k, kw) ==
    LET n == Len(h) + 1
        e == InitError(k, kw, n)
    IN  IF e # "none" THEN Raise(h, e)
        ELSE Return(Append(h, NewObject(k, kw, n)), PyNone, n)

-----------------------------------------------------------------------------
(* Calls *)

NoCall ==
    [op |-> "none", self |-> NoObj, name |-> "", args |-> <<>>, val |-> "",
     err |-> "none", ret |-> PyNone, obj |-> NoObj]

Call(op, self, name, args, val, o) ==
    [op |-> op, self |-> self, name |-> name, args |-> args, val |-> val,
     err |-> o.err, ret |-> o.ret, obj |-> o.obj]

Failed == last.err # "none"

EmptyManager ==
    [namespace |-> <<>>, nodes |-> <<>>, biport_node_map |-> <<>>,
     bilink_biport_map |-> <<>>, environment |-> NoObj]

-----------------------------------------------------------------------------
(* Attribute scenario: construct objects and assign their attributes *)

\* How many objects the attribute scenario constructs.
MaxAttrObjects == 1

AttrKinds == {"Node", "Port", "Link", "SwitchingService", "Location",
              "Lifetime"}

NameValues == {unset, "", "sw1"}

UriValues == {unset, "not a uri", "urn:a", "urn:b"}

\* The keyword sets of the constructor calls tried.
AttrKeywords ==
    {<<>>} \cup {[name |-> v] : v \in NameValues}
           \cup {[identifier |-> v] : v \in UriValues}
           \cup {[encoding |-> v] : v \in {"not a uri", "urn:a"}}

AttrInit ==
    /\ heap = <<>>
    /\ mgr = EmptyManager
    /\ last = NoCall

New(k, kw) ==
    /\ LET o == Construct(heap, k, kw)
       IN  /\ heap' = o.heap
           /\ last' = Call("new", NoObj, k, <<>>, "", o)
    /\ UNCHANGED mgr

Assign(x, a, v) ==
    /\ a \in DOMAIN heap[x].attrs
    /\ LET o == SetAttr(heap, x, a, v)
       IN  /\ heap' = o.heap
           /\ last' = Call("setattr", x, a, <<>>, v, o)
    /\ UNCHANGED mgr

AttrNext ==
    \/ /\ Len(heap) < MaxAttrObjects
       /\ \E k \in AttrKinds, kw \in AttrKeywords : New(k, kw)
    \/ \E x \in Objects(heap), v \in NameValues : Assign(x, "name", v)
    \/ \E x \in Objects(heap), v \in UriValues : Assign(x, "identifier", v)
    \/ \E x \in Objects(heap), v \in UriValues : Assign(x, "encoding", v)

AttrSpec == AttrInit /\ [][AttrNext]_vars

-----------------------------------------------------------------------------
(* Relations: the generated <relation>, add_<relation>, set_<relation> and *)
(* get_<relation> methods                                                  *)

Bool(b) == IF b THEN "True" ELSE "False"

\* key in OrderedDict
HasKey(s, key) == \E i \in 1..Len(s) : s[i].key = key

IndexOfKey(s, key) == CHOOSE i \in 1..Len(s) : s[i].key = key

\* OrderedDict[key] = c: a key already present keeps its position.
Upsert(s, key, c) ==
    IF HasKey(s, key)
    THEN [s EXCEPT ![IndexOfKey(s, key)] = [key |-> key, obj |-> c]]
    ELSE Append(s, [key |-> key, obj |-> c])

\* The entities of a stored relation, in order: OrderedDict.values() or the
\* tuple itself.
Targets(d, s) == IF d.width = 0 THEN [i \in 1..Len(s) |-> s[i].obj] ELSE s

\* get_<relation>(): a copy of the stored collection
Snapshot(h, x, r) == h[x].rels[r]

\* candidate.__class__ not in (<allowed classes>)
Disallowed(h, d, c) == KindOf(h, c) \notin d.allowed

\* <relation>(c): the check method
CheckRelation(h, x, r, c) ==
    LET d == Decl(KindOf(h, x), r)
        s == h[x].rels[r]
    IN  IF Disallowed(h, d, c) THEN Raise(h, d.error)
        ELSE IF d.width # 0
        THEN Return(h, Bool(\E i \in 1..Len(s) : s[i] = c), NoObj)
        ELSE IF ~HasAttr(h, c, "identifier") THEN Raise(h, "AttributeError")
        ELSE Return(h, Bool(HasKey(s, h[c].attrs["identifier"])), NoObj)

\* An add that writes the collection before it tests the class.
AddRelationStoreFirst(h, x, r, c) ==
    LET d  == Decl(KindOf(h, x), r)
        h2 == [h EXCEPT ![x].rels[r] = Upsert(@, IdString(c), c)]
    IN  IF Disallowed(h, d, c) THEN Raise(h2, d.error)
        ELSE IF ~HasAttr(h, c, "identifier") THEN Raise(h, "AttributeError")
        ELSE Return([h EXCEPT ![x].rels[r] =
                        Upsert(@, h[c].attrs["identifier"], c)], PyNone, NoObj)

\* An add that appends, whether or not the key is present.
AddRelationAppend(h, x, r, c) ==
    LET d == Decl(KindOf(h, x), r)
    IN  IF Disallowed(h, d, c) THEN Raise(h, d.error)
        ELSE IF ~HasAttr(h, c, "identifier") THEN Raise(h, "AttributeError")
        ELSE Return([h EXCEPT ![x].rels[r] =
                        Append(@, [key |-> h[c].attrs["identifier"],
                                   obj |-> c])], PyNone, NoObj)

\* add_<relation>(c), of a relation kept in an OrderedDict
AddRelation(h, x, r, c) ==
    LET d == Decl(KindOf(h, x), r)
    IN  IF Disallowed(h, d, c) THEN Raise(h, d.error)
        ELSE IF ~HasAttr(h, c, "identifier") THEN Raise(h, "AttributeError")
        ELSE Return([h EXCEPT ![x].rels[r] =
                        Upsert(@, h[c].attrs["identifier"], c)], PyNone, NoObj)

\* The first argument of the wrong class, 0 when there is none.
FirstDisallowed(h, d, cs) ==
    LET bad == {i \in 1..Len(cs) : Disallowed(h, d, cs[i])}
    IN  IF bad = {} THEN 0 ELSE CHOOSE i \in bad : \A j \in bad : i <= j

\* len(set(arg_tuple)) != len(arg_tuple), tested by the two-slot setters only
NonUnique(d, cs) ==
    d.width > 1 /\ Cardinality({cs[i] : i \in 1..Len(cs)}) # Len(cs)

\* A set that fills the slots one argument at a time, testing as it goes.
SetRelationSlotwise(h, x, r, cs) ==
    LET d   == Decl(KindOf(h, x), r)
        bad == FirstDisallowed(h, d, cs)
        upto(n) == [h EXCEPT ![x].rels[r] =
                       [i \in 1..Len(@) |-> IF i <= n THEN cs[i] ELSE @[i]]]
    IN  IF bad # 0 THEN Raise(upto(bad - 1), d.error)
        ELSE IF NonUnique(d, cs) THEN Raise(upto(Len(cs)), "Exception")
        ELSE Return(upto(Len(cs)), PyNone, NoObj)

\* A set that stores its arguments without testing their classes.
SetRelationUnchecked(h, x, r, cs) ==
    LET d == Decl(KindOf(h, x), r)
    IN  IF NonUnique(d, cs) THEN Raise(h, "Exception")
        ELSE Return([h EXCEPT ![x].rels[r] = cs], PyNone, NoObj)

\* set_<relation>(*cs), of a relation kept in a tuple
SetRelation(h, x, r, cs) ==
    LET d == Decl(KindOf(h, x), r)
    IN  IF FirstDisallowed(h, d, cs) # 0 THEN Raise(h, d.error)
        ELSE IF NonUnique(d, cs) THEN Raise(h, "Exception")
        ELSE Return([h EXCEPT ![x].rels[r] = cs], PyNone, NoObj)

-----------------------------------------------------------------------------
(* Relation scenario: objects are constructed, then related *)

\* How many candidate objects a scenario constructs beside its subject.
MaxCandidates == 3

\* Construct the objects of a cast, one after the other.
RECURSIVE Built(_, _)
Built(h, cast) ==
    IF cast = <<>> THEN h
    ELSE Built(Construct(h, Head(cast).kind, Head(cast).kw).heap, Tail(cast))

Plain(k) == [kind |-> k, kw |-> <<>>]

\* A subject and one candidate, of every two classes.
PairCasts == {<<Plain(k), Plain(c)>> : k \in NetworkObjectKinds, c \in Kinds}

\* The i-th candidate of a group scenario: two identifiers shared by turns,
\* every third candidate the group class.
Candidate(single, group, i) ==
    [kind |-> IF i % 3 = 0 THEN group ELSE single,
     kw   |-> [identifier |-> IF i % 2 = 1 THEN "urn:p" ELSE "urn:q"]]

GroupCast(k, single, group) ==
    <<Plain(k)>> \o [i \in 1..MaxCandidates |-> Candidate(single, group, i)]

GroupCasts ==
    {GroupCast("Node", "Port", "PortGroup"),
     GroupCast("BidirectionalPort", "Port", "PortGroup"),
     GroupCast("BidirectionalLink", "Link", "LinkGroup")}

RelInit ==
    /\ \E cast \in PairCasts \cup GroupCasts : heap = Built(<<>>, cast)
    /\ mgr = EmptyManager
    /\ last = NoCall

\* The subject of a scenario is its first object.
Subject == 1

Add(x, r, c) ==
    /\ r \in RelationNames(KindOf(heap, x))
    /\ Decl(KindOf(heap, x), r).width = 0
    /\ LET o == AddRelation(heap, x, r, c)
       IN  /\ heap' = o.heap
           /\ last' = Call("add", x, r, <<c>>, "", o)
    /\ UNCHANGED mgr

Set(x, r, cs) ==
    /\ r \in RelationNames(KindOf(heap, x))
    /\ Decl(KindOf(heap, x), r).width = Len(cs)
    /\ LET o == SetRelation(heap, x, r, cs)
       IN  /\ heap' = o.heap
           /\ last' = Call("set", x, r, cs, "", o)
    /\ UNCHANGED mgr

Check(x, r, c) ==
    /\ r \in RelationNames(KindOf(heap, x))
    /\ LET o == CheckRelation(heap, x, r, c)
       IN  /\ heap' = o.heap
           /\ last' = Call("check", x, r, <<c>>, "", o)
    /\ UNCHANGED mgr

AllRelationNames == UNION {RelationNames(k) : k \in Kinds}

RelNext ==
    \/ \E r \in AllRelationNames, c \in Objects(heap) : Add(Subject, r, c)
    \/ \E r \in AllRelationNames, c \in Objects(heap) : Set(Subject, r, <<c>>)
    \/ \E r \in AllRelationNames, c1, c2 \in Objects(heap) :
           Set(Subject, r, <<c1, c2>>)
    \/ \E r \in AllRelationNames, c \in Objects(heap) : Check(Subject, r, c)

RelSpec == RelInit /\ [][RelNext]_vars

-----------------------------------------------------------------------------
(* The namespace manager *)

MReturn(h, m, ret, obj) ==
    [heap |-> h, mgr |-> m, err |-> "none", ret |-> ret, obj |-> obj]

MRaise(h, m, e) ==
    [heap |-> h, mgr |-> m, err |-> e, ret |-> PyNone, obj |-> NoObj]

\* A register_object that overwrites the entry of a registered identifier.
RegisterObjectOverwrite(h, m, x) ==
    IF ~HasAttr(h, x, "identifier") THEN MRaise(h, m, "AttributeError")
    ELSE IF HasKey(m.namespace, h[x].attrs["identifier"])
    THEN MRaise(h, [m EXCEPT !.namespace =
                       Upsert(@, h[x].attrs["identifier"], x)], "Exception")
    ELSE MReturn(h, [m EXCEPT !.namespace =
                        Upsert(@, h[x].attrs["identifier"], x)], PyNone, NoObj)

\* A register_object that drops the entry of an identifier already present
\* and registers the new object at the end.
RegisterObjectReplacing(h, m, x) ==
    IF ~HasAttr(h, x, "identifier") THEN MRaise(h, m, "AttributeError")
    ELSE MReturn(h, [m EXCEPT !.namespace =
                        Append(SelectSeq(@, LAMBDA e :
                                   e.key # h[x].attrs["identifier"]),
                               [key |-> h[x].attrs["identifier"], obj |-> x])],
                 PyNone, NoObj)

\* NMLManager.register_object(x)
RegisterObject(h, m, x) ==
    IF ~HasAttr(h, x, "identifier") THEN MRaise(h, m, "AttributeError")
    ELSE IF HasKey(m.namespace, h[x].attrs["identifier"])
    THEN MRaise(h, m, "Exception")
    ELSE MReturn(h, [m EXCEPT !.namespace =
                        Upsert(@, h[x].attrs["identifier"], x)], PyNone, NoObj)

\* NMLManager.get_object(identifier): namespace.get(identifier, None)
GetObject(h, m, identifier) ==
    IF HasKey(m.namespace, identifier)
    THEN MReturn(h, m, PyNone, m.namespace[IndexOfKey(m.namespace, identifier)].obj)
    ELSE MReturn(h, m, PyNone, NoObj)

\* ExtendedNMLManager.create_node(**kw)
CreateNode(h, m, kw) ==
    LET c == Construct(h, "Node", kw)
        r == RegisterObject(c.heap, m, c.obj)
    IN  IF c.err # "none" THEN MRaise(c.heap, m, c.err)
        ELSE IF r.err # "none" THEN r
        ELSE MReturn(r.heap,
                     [r.mgr EXCEPT !.nodes =
                         Upsert(@, r.heap[c.obj].attrs["identifier"], c.obj)],
                     PyNone, c.obj)

-----------------------------------------------------------------------------
(* Namespace scenario: objects are constructed, registered and renamed *)

\* How many objects the namespace scenario constructs.
MaxMgrObjects == 2

MgrKinds == {"Node", "Lifetime"}

MgrIds == {"urn:a", "urn:b"}

MgrKeywords == {[identifier |-> i] : i \in MgrIds}

MgrInit ==
    /\ heap = <<>>
    /\ mgr = EmptyManager
    /\ last = NoCall

Register(x) ==
    LET o == RegisterObject(heap, mgr, x)
    IN  /\ heap' = o.heap
        /\ mgr' = o.mgr
        /\ last' = Call("register", NoObj, "", <<x>>, "", o)

Get(i) ==
    LET o == GetObject(heap, mgr, i)
    IN  /\ heap' = o.heap
        /\ mgr' = o.mgr
        /\ last' = Call("get_object", NoObj, "", <<>>, i, o)

NewNode(kw) ==
    LET o == CreateNode(heap, mgr, kw)
    IN  /\ heap' = o.heap
        /\ mgr' = o.mgr
        /\ last' = Call("create_node", NoObj, "", <<>>, Arg(kw, "identifier"), o)

MgrNext ==
    \/ /\ Len(heap) < MaxMgrObjects
       /\ \E k \in MgrKinds, kw \in MgrKeywords : New(k, kw)
    \/ /\ Len(heap) < MaxMgrObjects
       /\ \E kw \in MgrKeywords : NewNode(kw)
    \/ \E x \in Objects(heap) : Register(x)
    \/ \E i \in MgrIds : Get(i)
    \/ \E x \in Objects(heap), v \in MgrIds \cup {unset} :
           Assign(x, "identifier", v)

MgrSpec == MgrInit /\ [][MgrNext]_vars

-----------------------------------------------------------------------------
(* Properties of attribute assignment (AttrSpec) *)

\* The values the validators refuse: an empty name, a string that is no URI.
Refused(a, v) ==
    IF a = "name" THEN v = "" ELSE v = "not a uri"

\* The error class named after each validated attribute.
AttributeErrorName ==
    [name |-> "AttributeNameError",
     identifier |-> "AttributeIdError",
     encoding |-> "AttributeEncodingError"]

\* C1: assigning an invalid value to name, identifier or encoding fails with
\* the error of that attribute and leaves every stored value as it was;
\* validation precedes the store.
AttributeAtomicity ==
    [][(last'.op = "setattr" /\ Refused(last'.name, last'.val))
          => /\ last'.err = AttributeErrorName[last'.name]
             /\ heap' = heap
             /\ mgr' = mgr]_vars

\* An identifier assignment was refused and the identifier stored before it,
\* a valid URI, is still the stored one.
AttributeAtomicityWitness ==
    /\ last.op = "setattr"
    /\ last.name = "identifier"
    /\ last.val = "not a uri"
    /\ last.err = "AttributeIdError"
    /\ heap[last.self].attrs["identifier"] = "urn:a"

\* C6: once an identifier is accepted for an object no operation changes it.
IdentifierImmutable ==
    [][\A x \in Objects(heap) :
          (HasAttr(heap, x, "identifier")
              /\ heap[x].attrs["identifier"] # unset)
          => heap'[x].attrs["identifier"] = heap[x].attrs["identifier"]]_vars

-----------------------------------------------------------------------------
(* Properties of relation operations (RelSpec) *)

\* The error class named after each relation.
RelationErrorName ==
    [existsDuring |-> "RelationExistsDuringError",
     isAlias |-> "RelationIsAliasError",
     locatedAt |-> "RelationLocatedAtError",
     hasInboundPort |-> "RelationHasInboundPortError",
     hasOutboundPort |-> "RelationHasOutboundPortError",
     hasService |-> "RelationHasServiceError",
     implementedBy |-> "RelationImplementedByError",
     hasLabel |-> "RelationHasLabelError",
     isSink |-> "RelationIsSinkError",
     isSource |-> "RelationIsSourceError",
     providesLink |-> "RelationProvidesLinkError",
     canProvidePort |-> "RelationCanProvidePortError",
     providesPort |-> "RelationProvidesPortError",
     hasNode |-> "RelationHasNodeError",
     hasEnvironment |-> "RelationHasEnvironmentError",
     hasTopology |-> "RelationHasTopologyError",
     hasLabelGroup |-> "RelationHasLabelGroupError",
     hasPort |-> "RelationHasPortError",
     hasLink |-> "RelationHasLinkError",
     isSerialCompoundLink |-> "RelationIsSerialCompoundLinkError"]

RelationOps == {"add", "set", "check"}

\* Some target of the call has a kind outside the declared set of the relation.
OutsideAllowed(h, c) ==
    \E i \in DOMAIN c.args :
        KindOf(h, c.args[i]) \notin Decl(KindOf(h, c.self), c.name).allowed

\* C2: an add, set or check whose target has a kind outside the relation's
\* allowed set fails with that relation's own error and changes nothing.
TypeGate ==
    [][(last'.op \in RelationOps /\ OutsideAllowed(heap, last'))
          => /\ last'.err = RelationErrorName[last'.name]
             /\ heap' = heap
             /\ mgr' = mgr]_vars

\* A set with a target of a foreign kind was refused while the relation
\* holds the two targets of an earlier set.
TypeGateWitness ==
    /\ last.op = "set"
    /\ last.name = "hasPort"
    /\ OutsideAllowed(heap, last)
    /\ last.err = "RelationHasPortError"
    /\ heap[last.self].rels["hasPort"] = <<2, 3>>

\* Every two-slot relation is wholly unset or holds two distinct targets of
\* allowed kinds.
SlotsWhole(h) ==
    \A x \in Objects(h) : \A r \in RelationNames(KindOf(h, x)) :
        LET d == Decl(KindOf(h, x), r)
            s == h[x].rels[r]
        IN  d.width = 2 =>
              \/ s = EmptyStore(d)
              \/ /\ s[1] # NoObj /\ s[2] # NoObj /\ s[1] # s[2]
                 /\ KindOf(h, s[1]) \in d.allowed
                 /\ KindOf(h, s[2]) \in d.allowed

\* C3: a two-slot relation is never partly filled, and a failing set leaves
\* the relation in the state it had before the call.
FixedAtomicity ==
    [][/\ SlotsWhole(heap) /\ SlotsWhole(heap')
       /\ (last'.op = "set" /\ last'.err # "none") => heap' = heap]_vars

\* A set naming the same target twice was refused while the relation holds
\* the two targets of an earlier set.
FixedAtomicityWitness ==
    /\ last.op = "set"
    /\ Len(last.args) = 2
    /\ last.args[1] = last.args[2]
    /\ last.err # "none"
    /\ heap[last.self].rels[last.name] = <<2, 3>>

KeysDistinct(s) ==
    \A i, j \in DOMAIN s : s[i].key = s[j].key => i = j

\* C4: a successful add of a target whose identifier is already related
\* replaces the entry in place, otherwise it appends one entry; no identifier
\* is ever related twice.
IdempotentAdd ==
    [][(last'.op = "add" /\ last'.err = "none") =>
         LET c   == last'.args[1]
             key == heap[c].attrs["identifier"]
             s   == heap[last'.self].rels[last'.name]
             t   == heap'[last'.self].rels[last'.name]
         IN  /\ KeysDistinct(t)
             /\ IF \E i \in DOMAIN s : s[i].key = key
                THEN /\ Len(t) = Len(s)
                     /\ \A i \in DOMAIN s :
                          /\ t[i].key = s[i].key
                          /\ t[i].obj = IF s[i].key = key THEN c ELSE s[i].obj
                ELSE t = Append(s, [key |-> key, obj |-> c])]_vars

\* The add of a second target with the identifier of the first took the
\* first position of a relation that holds two entries.
IdempotentAddWitness ==
    /\ last.op = "add"
    /\ last.err = "none"
    /\ last.name = "hasInboundPort"
    /\ last.args = <<4>>
    /\ heap[2].attrs["identifier"] = heap[4].attrs["identifier"]
    /\ heap[last.self].rels["hasInboundPort"] =
           <<[key |-> heap[4].attrs["identifier"], obj |-> 4],
             [key |-> heap[3].attrs["identifier"], obj |-> 3]>>

\* The target is reported by the snapshot and by the check of the relation.
Related(h, x, r, c) ==
    /\ LET t == Targets(Decl(KindOf(h, x), r), Snapshot(h, x, r))
       IN  \E i \in DOMAIN t : t[i] = c
    /\ CheckRelation(h, x, r, c).ret = Bool(TRUE)

\* C8: isAlias accepts a target of the same kind as the source.
IsAliasSameKind ==
    (/\ last.op = "add"
     /\ last.name = "isAlias"
     /\ KindOf(heap, last.args[1]) = KindOf(heap, last.self))
    => /\ last.err = "none"
       /\ Related(heap, last.self, "isAlias", last.args[1])

\* C9: existsDuring accepts a Lifetime, which the snapshot then reports.
ExistsDuringLifetime ==
    (/\ last.op = "add"
     /\ last.name = "existsDuring"
     /\ KindOf(heap, last.args[1]) = "Lifetime")
    => /\ last.err = "none"
       /\ Related(heap, last.self, "existsDuring", last.args[1])

\* C10: hasLabelGroup accepts a LabelGroup and refuses every other kind
\* with the error of the relation.
HasLabelGroupTarget ==
    (last.op = "set" /\ last.name = "hasLabelGroup")
    => IF KindOf(heap, last.args[1]) = "LabelGroup"
       THEN /\ last.err = "none"
            /\ Related(heap, last.self, "hasLabelGroup", last.args[1])
       ELSE last.err = "RelationHasLabelGroupError"

-----------------------------------------------------------------------------
(* Properties of the namespace (MgrSpec) *)

\* The call registers an identifier that the namespace m already holds.
Duplicate(h, m, c) ==
    \/ /\ c.op = "register"
       /\ HasAttr(h, c.args[1], "identifier")
       /\ HasKey(m.namespace, h[c.args[1]].attrs["identifier"])
    \/ /\ c.op = "create_node"
       /\ HasKey(m.namespace, c.val)

\* C5: registering an identifier that is already registered fails with
\* DuplicateIdentifierError and leaves the namespace as it was.
RegistryUniqueness ==
    [][Duplicate(heap', mgr, last')
          => (last'.err = "DuplicateIdentifierError" /\ mgr' = mgr)]_vars

\* C5, as the code has it: registering an identifier that is already
\* registered fails with the plain Exception of register_object and leaves
\* the namespace, its entries and their order, as it was.
RegistryUniquenessException ==
    [][Duplicate(heap', mgr, last')
          => (last'.err = "Exception" /\ mgr' = mgr)]_vars

\* The registration of a second object under a registered identifier was
\* refused and the namespace still maps the identifier to the first.
RegistryUniquenessWitness ==
    /\ last.op = "register"
    /\ last.err = "Exception"
    /\ last.args = <<2>>
    /\ HasAttr(heap, 1, "identifier")
    /\ HasAttr(heap, 2, "identifier")
    /\ heap[1].attrs["identifier"] = heap[2].attrs["identifier"]
    /\ mgr.namespace = <<[key |-> heap[1].attrs["identifier"], obj |-> 1]>>

\* The objects registered in the namespace.
Registered(m) == {m.namespace[i].obj : i \in DOMAIN m.namespace}

\* C7: no two registered objects have the same current identifier, and
\* get_object(i) returns the registered object whose current identifier is
\* i, or None when there is none.
NamespaceUniqueness ==
    /\ \A x, y \in Registered(mgr) :
          heap[x].attrs["identifier"] = heap[y].attrs["identifier"] => x = y
    /\ \A i \in MgrIds :
          LET found == GetObject(heap, mgr, i).obj
              named == {x \in Registered(mgr) : heap[x].attrs["identifier"] = i}
          IN  IF named = {} THEN found = NoObj ELSE found \in named

-----------------------------------------------------------------------------
(* The kind of error of a set with equal targets (RelSpec) *)

\* The error classes of the library: the subclasses of NMLException.
LibraryErrors ==
    {RelationErrorName[r] : r \in DOMAIN RelationErrorName}
        \cup {AttributeErrorName[a] : a \in DOMAIN AttributeErrorName}

\* C11: a set on a two-slot relation whose targets are of allowed kinds but
\* are the same object fails with a cardinality error of the library's own
\* error family, not with an untyped Exception.
CardinalityErrorKind ==
    (/\ last.op = "set"
     /\ Len(last.args) = 2
     /\ last.args[1] = last.args[2]
     /\ ~OutsideAllowed(heap, last))
    => /\ last.err # "Exception"
       /\ last.err \in LibraryErrors \cup {"RelationCardinalityError"}

-----------------------------------------------------------------------------
(* Serialization: NMLObject.as_nml *)

\* NAMESPACES['nml']
NmlNamespace == "http://schemas.ogf.org/nml/2013/05/base"

\* An etree element: its tag, its attrib dictionary in insertion order and
\* its children in document order.
Element(tag, attrib, children) ==
    [tag |-> tag, attrib |-> attrib, children |-> children]

\* One entry of an attrib dictionary.
Attr(n, v) == [name |-> n, value |-> v]

NoTree == Element("", <<>>, <<>>)

\* A call that returned the element `t`.
ReturnTree(h, t) ==
    [heap |-> h, err |-> "none", ret |-> PyNone, obj |-> NoObj, tree |-> t]

\* A call that raised `e` and returned no element.
RaiseTree(h, e) ==
    [heap |-> h, err |-> e, ret |-> PyNone, obj |-> NoObj, tree |-> NoTree]

\* The attributes loop: this.attrib[attr_name] = attr unless attr is unset.
EmittedAttributes(h, x) ==
    LET as == Attributes(KindOf(h, x))
    IN  SelectSeq([i \in 1..Len(as) |-> Attr(as[i], h[x].attrs[as[i]])],
                  LAMBDA p : p.value # unset)

\* relgetter(), and the values of an OrderedDict
Associated(h, x, d) == Targets(d, Snapshot(h, x, d.name))

\* not (not associated or not all(associated))
Populated(h, x, d) ==
    LET cs == Associated(h, x, d)
    IN  cs # <<>> /\ \A i \in 1..Len(cs) : cs[i] # NoObj

\* The relations the loop does not skip, in the order of self.relations.
EmittedRelations(h, x) ==
    SelectSeq(Relations(KindOf(h, x)), LAMBDA d : Populated(h, x, d))

\* etree.SubElement(relation, associated.__class__.__name__,
\*                  id=associated.identifier)
Reference(h, c) ==
    Element(KindOf(h, c), <<Attr("id", h[c].attrs["identifier"])>>, <<>>)

\* etree.SubElement(this, 'Relation', type='<namespace>#<relname>') and its
\* reference children.
Wrapper(h, x, d) ==
    LET cs == Associated(h, x, d)
    IN  Element("Relation",
                <<Attr("type", NmlNamespace \o "#" \o d.name)>>,
                [i \in 1..Len(cs) |-> Reference(h, cs[i])])

\* Some object of an emitted relation has no attribute `identifier`.
ReferenceFails(h, x) ==
    LET ds == EmittedRelations(h, x)
    IN  \E j \in 1..Len(ds) : \E i \in 1..Len(Associated(h, x, ds[j])) :
            ~HasAttr(h, Associated(h, x, ds[j])[i], "identifier")

\* An as_nml that empties every relation it emits.
AsNmlConsuming(h, x) ==
    LET ds == EmittedRelations(h, x)
        emptied == [r \in DOMAIN h[x].rels |->
                       IF Populated(h, x, Decl(KindOf(h, x), r))
                       THEN EmptyStore(Decl(KindOf(h, x), r))
                       ELSE h[x].rels[r]]
    IN  IF ReferenceFails(h, x) THEN RaiseTree(h, "AttributeError")
        ELSE ReturnTree([h EXCEPT ![x].rels = emptied],
                        Element("nml:" \o KindOf(h, x),
                                EmittedAttributes(h, x),
                                [j \in 1..Len(ds) |-> Wrapper(h, x, ds[j])]))

\* An as_nml that nests the serialized target inside each reference, one
\* level deep.
AsNmlNested(h, x) ==
    LET ds == EmittedRelations(h, x)
        Nested(c) == Element(KindOf(h, c),
                             <<Attr("id", h[c].attrs["identifier"])>>,
                             <<Element("nml:" \o KindOf(h, c),
                                       EmittedAttributes(h, c), <<>>)>>)
    IN  IF ReferenceFails(h, x) THEN RaiseTree(h, "AttributeError")
        ELSE ReturnTree(h,
               Element("nml:" \o KindOf(h, x),
                       EmittedAttributes(h, x),
                       [j \in 1..Len(ds) |->
                          Element("Relation",
                                  <<Attr("type", NmlNamespace \o "#" \o ds[j].name)>>,
                                  [i \in 1..Len(Associated(h, x, ds[j])) |->
                                     Nested(Associated(h, x, ds[j])[i])])]))

\* x.as_nml(): the element named 'nml:<class>' with the set attributes and
\* one Relation child per populated relation.
AsNml(h, x) ==
    LET ds == EmittedRelations(h, x)
    IN  IF ReferenceFails(h, x) THEN RaiseTree(h, "AttributeError")
        ELSE ReturnTree(h, Element("nml:" \o KindOf(h, x),
                                   EmittedAttributes(h, x),
                                   [j \in 1..Len(ds) |-> Wrapper(h, x, ds[j])]))

\* The record of a call that returns an element.
TreeCall(op, self, o) ==
    [op |-> op, self |-> self, name |-> "", args |-> <<>>, val |-> "",
     err |-> o.err, ret |-> o.ret, obj |-> o.obj, tree |-> o.tree]

Serialize(x) ==
    LET o == AsNml(heap, x)
    IN  /\ heap' = o.heap
        /\ last' = TreeCall("as_nml", x, o)
        /\ UNCHANGED mgr

-----------------------------------------------------------------------------
(* Construction scenario: objects of every class are built and serialized *)

\* How many objects the construction scenario builds.
MaxConsObjects == 2

\* The attributes every NetworkObject has; the others are kind-specific.
IdentityAttributes == {"name", "identifier", "version"}

KindSpecific(k) == AttributeSet(k) \ IdentityAttributes

\* The value passed for an attribute that is supplied.
Supplied(a) == IF a = "encoding" THEN "urn:a" ELSE "given"

\* The constructor calls tried for class k: no keyword, or one kind-specific
\* attribute supplied.
ConsKeywords(k) ==
    {<<>>} \cup {[b \in {a} |-> Supplied(a)] : a \in KindSpecific(k)}

ConsInit ==
    /\ heap = <<>>
    /\ mgr = EmptyManager
    /\ last = NoCall

\* k(**kw), the keywords kept with the call.
Build(k, kw) ==
    /\ LET o == Construct(heap, k, kw)
       IN  /\ heap' = o.heap
           /\ last' = Call("new", NoObj, k, <<kw>>, "", o)
    /\ UNCHANGED mgr

ConsNext ==
    \/ /\ Len(heap) < MaxConsObjects
       /\ \E k \in Kinds : \E kw \in ConsKeywords(k) : Build(k, kw)
    \/ \E x \in Objects(heap) : Serialize(x)

ConsSpec == ConsInit /\ [][ConsNext]_vars

\* C16: after construction every kind-specific attribute that was not
\* supplied is the unset sentinel.
KindSpecificDefaultsUnset ==
    (last.op = "new" /\ last.err = "none")
    => \A a \in KindSpecific(last.name) \ DOMAIN last.args[1] :
           heap[last.obj].attrs[a] = unset

\* The attribute names of an element.
AttribNames(t) == {t.attrib[i].name : i \in 1..Len(t.attrib)}

\* The relation a Relation wrapper is typed with.
WrapperOf(k, w) ==
    {r \in RelationNames(k) : w.attrib = <<Attr("type", NmlNamespace \o "#" \o r)>>}

\* The object is as its constructor leaves it when no keyword is passed.
Fresh(h, x) == h[x] = NewObject(KindOf(h, x), <<>>, x)

\* C15: a serialized entity has no attribute for an unset value and no
\* Relation wrapper for an unpopulated relation, every wrapper has a
\* reference child, and a freshly constructed entity with every optional
\* attribute defaulted has only identity attributes and no Relation child.
UnsetOmission ==
    (last.op = "as_nml" /\ last.err = "none")
    => LET x == last.self
           k == KindOf(heap, x)
           t == last.tree
       IN  /\ \A a \in AttributeSet(k) :
                 heap[x].attrs[a] = unset => a \notin AttribNames(t)
           /\ \A j \in 1..Len(t.children) :
                 /\ t.children[j].children # <<>>
                 /\ \A r \in WrapperOf(k, t.children[j]) :
                       Populated(heap, x, Decl(k, r))
           /\ Fresh(heap, x) =>
                 /\ AttribNames(t) \subseteq IdentityAttributes \cup {"id"}
                 /\ t.children = <<>>

\* The name the schema gives an attribute in NML documents.
ExternalName(a) ==
    IF a = "identifier" THEN "id"
    ELSE IF a = "adaptation_function" THEN "adaptationFunction"
    ELSE a

\* C12: a serialized entity carries each set attribute under its external
\* name, identifier as id and adaptation_function as adaptationFunction, and
\* no attribute under the internal name of either.
ExternalAttributeNames ==
    (last.op = "as_nml" /\ last.err = "none")
    => LET x == last.self
           t == last.tree
       IN  /\ \A a \in AttributeSet(KindOf(heap, x)) :
                 heap[x].attrs[a] # unset =>
                     \E i \in 1..Len(t.attrib) :
                         t.attrib[i] = Attr(ExternalName(a), heap[x].attrs[a])
           /\ AttribNames(t) \cap {"identifier", "adaptation_function"} = {}

-----------------------------------------------------------------------------
(* Serialization scenario: related objects are serialized *)

Identified(k, i) == [kind |-> k, kw |-> [identifier |-> i]]

\* The graphs serialized: a node with ports and a location, two topologies,
\* a port with a label, a bidirectional port, a port group with a lifetime.
SerCasts ==
    {<<Plain("Node"), Identified("Port", "urn:p"), Identified("Port", "urn:q"),
       Plain("Location")>>,
     <<Plain("Topology"), Plain("Topology")>>,
     <<Plain("Port"), Plain("Label"), Plain("Location")>>,
     <<Plain("BidirectionalPort"), Identified("Port", "urn:p"),
       Identified("Port", "urn:q")>>,
     <<Plain("PortGroup"), Plain("Lifetime")>>}

SerInit ==
    /\ \E cast \in SerCasts : heap = Built(<<>>, cast)
    /\ mgr = EmptyManager
    /\ last = NoCall

SerNext ==
    \/ \E x, c \in Objects(heap) :
           \E r \in RelationNames(KindOf(heap, x)) : Add(x, r, c)
    \/ \E x, c \in Objects(heap) :
           \E r \in RelationNames(KindOf(heap, x)) : Set(x, r, <<c>>)
    \/ \E x, c1, c2 \in Objects(heap) :
           \E r \in RelationNames(KindOf(heap, x)) : Set(x, r, <<c1, c2>>)
    \/ \E x \in Objects(heap) : Serialize(x)

SerSpec == SerInit /\ [][SerNext]_vars

\* The position of relation r among the relations class k declares itself.
OwnIndex(k, r) ==
    CHOOSE i \in 1..Len(OwnRelations(k)) : OwnRelations(k)[i].name = r

\* The position of relation r among the relations of NetworkObject.
BaseIndex(r) ==
    CHOOSE i \in 1..Len(NetworkObjectRelations) :
        NetworkObjectRelations[i].name = r

IsBase(r) == \E i \in 1..Len(NetworkObjectRelations) :
                 NetworkObjectRelations[i].name = r

\* r1 is emitted before r2 when the relations of the class itself come
\* first and the inherited ones after them.
OwnFirst(k, r1, r2) ==
    IF IsBase(r1) THEN IsBase(r2) /\ BaseIndex(r1) < BaseIndex(r2)
    ELSE IsBase(r2) \/ OwnIndex(k, r1) < OwnIndex(k, r2)

\* r1 is emitted before r2 when the inherited relations come first and the
\* relations of the class itself after them.
BaseFirst(k, r1, r2) ==
    IF IsBase(r2) THEN IsBase(r1) /\ BaseIndex(r1) < BaseIndex(r2)
    ELSE IsBase(r1) \/ OwnIndex(k, r1) < OwnIndex(k, r2)

\* The wrappers of the serialized element follow the order Before.
WrappersOrdered(Before(_, _, _)) ==
    (last.op = "as_nml" /\ last.err = "none")
    => LET k == KindOf(heap, last.self)
           t == last.tree
       IN  \A i, j \in 1..Len(t.children) :
               i < j => \A r1 \in WrapperOf(k, t.children[i]) :
                        \A r2 \in WrapperOf(k, t.children[j]) :
                            Before(k, r1, r2)

\* C13: as_nml emits the wrappers of the relations the kind declares itself
\* first, in declaration order, and the inherited existsDuring, isAlias and
\* locatedAt after them.
EmissionOrderOwnFirst == WrappersOrdered(OwnFirst)

\* C13, as the code has it: as_nml emits the wrappers of the inherited
\* relations existsDuring, isAlias and locatedAt first and the relations
\* the kind declares itself after them, in declaration order.
EmissionOrderBaseFirst == WrappersOrdered(BaseFirst)

\* A node with a location and an inbound port was serialized: the locatedAt
\* wrapper is the first child and the hasInboundPort wrapper the second.
EmissionOrderWitness ==
    /\ last.op = "as_nml"
    /\ last.err = "none"
    /\ KindOf(heap, last.self) = "Node"
    /\ Len(last.tree.children) >= 2
    /\ WrapperOf("Node", last.tree.children[1]) = {"locatedAt"}
    /\ WrapperOf("Node", last.tree.children[2]) = {"hasInboundPort"}

\* C14: as_nml succeeds and emits, for each populated relation, exactly one
\* Relation child typed '<namespace>#<relation>' that holds one reference
\* per related object in snapshot order, named after the object's kind and
\* carrying its identifier as id.
WrappersAndReferences ==
    (last.op = "as_nml")
    => LET x == last.self
           k == KindOf(heap, x)
           t == last.tree
       IN  /\ last.err = "none"
           /\ \A j \in 1..Len(t.children) : WrapperOf(k, t.children[j]) # {}
           /\ \A r \in RelationNames(k) :
                LET cs == Associated(heap, x, Decl(k, r))
                    ws == {j \in 1..Len(t.children) :
                              r \in WrapperOf(k, t.children[j])}
                IN  IF ~Populated(heap, x, Decl(k, r)) THEN ws = {}
                    ELSE /\ Cardinality(ws) = 1
                         /\ \A j \in ws :
                              /\ t.children[j].tag = "Relation"
                              /\ Len(t.children[j].children) = Len(cs)
                              /\ \A i \in 1..Len(cs) :
                                   /\ HasAttr(heap, cs[i], "identifier")
                                   /\ t.children[j].children[i] =
                                        Element(KindOf(heap, cs[i]),
                                                <<Attr("id", heap[cs[i]].attrs["identifier"])>>,
                                                <<>>)

RECURSIVE Depth(_)
\* The number of levels of an element tree.
Depth(t) ==
    IF t.children = <<>> THEN 1
    ELSE 1 + (CHOOSE n \in {Depth(t.children[i]) : i \in 1..Len(t.children)} :
                 \A i \in 1..Len(t.children) : Depth(t.children[i]) <= n)

\* C17: as_nml ends on every graph, cyclic ones included, and the element
\* it returns has at most three levels, every reference carrying only an id
\* attribute and no children.
ShallowReferences ==
    (last.op = "as_nml" /\ last.err = "none")
    => LET t == last.tree
       IN  /\ Depth(t) <= 3
           /\ \A j \in 1..Len(t.children) :
                \A i \in 1..Len(t.children[j].children) :
                    /\ AttribNames(t.children[j].children[i]) = {"id"}
                    /\ t.children[j].children[i].children = <<>>

\* A topology that has a second topology, which in turn has the first, was
\* serialized with a reference to the second.
ShallowReferencesWitness ==
    /\ last.op = "as_nml"
    /\ last.err = "none"
    /\ KindOf(heap, 1) = "Topology"
    /\ last.self = 1
    /\ Targets(Decl("Topology", "hasTopology"), heap[1].rels["hasTopology"]) = <<2>>
    /\ Targets(Decl("Topology", "hasTopology"), heap[2].rels["hasTopology"]) = <<1>>
    /\ Depth(last.tree) = 3

-----------------------------------------------------------------------------
(* The helpers of ExtendedNMLManager and the export of a namespace *)

\* The state of a helper between two of its statements: the heap, the
\* manager, the error raised so far and the objects created so far.
Frame(h, m) == [heap |-> h, mgr |-> m, err |-> "none", objs |-> <<>>]

\* The frame after an object method with outcome o.
After(f, o) == [f EXCEPT !.heap = o.heap, !.err = o.err]

\* <x>.name + suffix, which needs a string.
Suffixed(h, x, suffix) == h[x].attrs["name"] \o suffix

\* Class(name=<x>.name + suffix)
ConstructNamed(h, k, x, suffix) ==
    IF h[x].attrs["name"] = unset THEN Raise(h, "TypeError")
    ELSE Construct(h, k, [name |-> Suffixed(h, x, suffix)])

\* An add_<relation> call on an object that may be None or of a class
\* without the method.
AddRelationOn(h, x, r, c) ==
    IF x = NoObj \/ r \notin RelationNames(KindOf(h, x))
    THEN Raise(h, "AttributeError")
    ELSE AddRelation(h, x, r, c)

\* biport._has_port_ports[i].add_<relation>(link)
AddRelationOnSubPort(h, x, i, r, c) ==
    IF "hasPort" \notin DOMAIN h[x].rels THEN Raise(h, "AttributeError")
    ELSE IF Decl(KindOf(h, x), "hasPort").width = 0 THEN Raise(h, "KeyError")
    ELSE AddRelationOn(h, h[x].rels["hasPort"][i], r, c)

\* The statements of the helpers.  Each is skipped once an earlier one has
\* raised; created objects are named by their position in f.objs.

\* <new> = Class(**kw)
StepNew(f, k, kw) ==
    CHOOSE g \in {IF v.err # "none" THEN v
                  ELSE LET o == Construct(v.heap, k, kw)
                       IN  [After(v, o) EXCEPT !.objs = Append(@, o.obj)]
                  : v \in {f}} : TRUE

\* <new> = Class(name=<objs[i]>.name + suffix)
StepNewNamed(f, k, i, suffix) ==
    CHOOSE g \in {IF v.err # "none" THEN v
                  ELSE LET o == ConstructNamed(v.heap, k, v.objs[i], suffix)
                       IN  [After(v, o) EXCEPT !.objs = Append(@, o.obj)]
                  : v \in {f}} : TRUE

\* self.register_object(<objs[i]>)
StepRegister(f, i) ==
    CHOOSE g \in {IF v.err # "none" THEN v
                  ELSE LET o == RegisterObject(v.heap, v.mgr, v.objs[i])
                       IN  [v EXCEPT !.heap = o.heap, !.mgr = o.mgr,
                                     !.err = o.err]
                  : v \in {f}} : TRUE

\* <objs[i]>.set_<r>(<objs[j]>, <objs[k]>)
StepSet(f, i, r, j, k) ==
    CHOOSE g \in {IF v.err # "none" THEN v
                  ELSE After(v, SetRelation(v.heap, v.objs[i], r,
                                            <<v.objs[j], v.objs[k]>>))
                  : v \in {f}} : TRUE

\* x.add_<r>(<objs[i]>)
StepAdd(f, x, r, i) ==
    CHOOSE g \in {IF v.err # "none" THEN v
                  ELSE After(v, AddRelationOn(v.heap, x, r, v.objs[i]))
                  : v \in {f}} : TRUE

\* x._has_port_ports[slot].add_<r>(<objs[i]>)
StepAddSubPort(f, x, slot, r, i) ==
    CHOOSE g \in {IF v.err # "none" THEN v
                  ELSE After(v, AddRelationOnSubPort(v.heap, x, slot, r,
                                                     v.objs[i]))
                  : v \in {f}} : TRUE

\* self._<map>[<objs[1]>.identifier] = value; return <objs[1]>
StepMapAndReturn(f, map, value) ==
    CHOOSE g \in {IF v.err # "none" THEN MRaise(v.heap, v.mgr, v.err)
                  ELSE MReturn(v.heap,
                               [v.mgr EXCEPT ![map] =
                                   Upsert(@, v.heap[v.objs[1]].attrs["identifier"],
                                          value)],
                               PyNone, v.objs[1])
                  : v \in {f}} : TRUE

\* A create_biport that does not register the outbound port.
CreateBiportUnregistered(h, m, node, kw) ==
    LET f1 == StepNew(Frame(h, m), "BidirectionalPort", kw)
        f2 == StepNewNamed(f1, "Port", 1, "_in")
        f3 == StepNewNamed(f2, "Port", 1, "_out")
        f4 == StepRegister(f3, 1)
        f5 == StepRegister(f4, 2)
        f7 == StepSet(f5, 1, "hasPort", 2, 3)
        f8 == StepAdd(f7, node, "hasInboundPort", 2)
        f9 == StepAdd(f8, node, "hasOutboundPort", 3)
    IN  StepMapAndReturn(f9, "biport_node_map", node)

\* A create_biport that sets the slots of hasPort the other way round.
CreateBiportSwapped(h, m, node, kw) ==
    LET f1 == StepNew(Frame(h, m), "BidirectionalPort", kw)
        f2 == StepNewNamed(f1, "Port", 1, "_in")
        f3 == StepNewNamed(f2, "Port", 1, "_out")
        f4 == StepRegister(f3, 1)
        f5 == StepRegister(f4, 2)
        f6 == StepRegister(f5, 3)
        f7 == StepSet(f6, 1, "hasPort", 3, 2)
        f8 == StepAdd(f7, node, "hasInboundPort", 2)
        f9 == StepAdd(f8, node, "hasOutboundPort", 3)
    IN  StepMapAndReturn(f9, "biport_node_map", node)

\* ExtendedNMLManager.create_biport(node, **kw); objs = biport, in_port,
\* out_port
CreateBiport(h, m, node, kw) ==
    LET f1 == StepNew(Frame(h, m), "BidirectionalPort", kw)
        f2 == StepNewNamed(f1, "Port", 1, "_in")
        f3 == StepNewNamed(f2, "Port", 1, "_out")
        f4 == StepRegister(f3, 1)
        f5 == StepRegister(f4, 2)
        f6 == StepRegister(f5, 3)
        f7 == StepSet(f6, 1, "hasPort", 2, 3)
        f8 == StepAdd(f7, node, "hasInboundPort", 2)
        f9 == StepAdd(f8, node, "hasOutboundPort", 3)
    IN  StepMapAndReturn(f9, "biport_node_map", node)

\* A create_bilink that hands each link to the ports of the wrong side.
CreateBilinkCrossed(h, m, a, b, kw) ==
    LET f1  == StepNew(Frame(h, m), "BidirectionalLink", kw)
        f2  == StepNewNamed(f1, "Link", 1, "_link_a_b")
        f3  == StepNewNamed(f2, "Link", 1, "_link_b_a")
        f4  == StepRegister(f3, 1)
        f5  == StepRegister(f4, 2)
        f6  == StepRegister(f5, 3)
        f7  == StepSet(f6, 1, "hasLink", 2, 3)
        f8  == StepAddSubPort(f7, a, 1, "isSink", 2)
        f9  == StepAddSubPort(f8, a, 2, "isSource", 3)
        f10 == StepAddSubPort(f9, b, 1, "isSink", 3)
        f11 == StepAddSubPort(f10, b, 2, "isSource", 2)
    IN  StepMapAndReturn(f11, "bilink_biport_map", <<a, b>>)

\* ExtendedNMLManager.create_bilink(biport_a, biport_b, **kw); objs = bilink,
\* link_a_b, link_b_a
CreateBilink(h, m, a, b, kw) ==
    LET f1  == StepNew(Frame(h, m), "BidirectionalLink", kw)
        f2  == StepNewNamed(f1, "Link", 1, "_link_a_b")
        f3  == StepNewNamed(f2, "Link", 1, "_link_b_a")
        f4  == StepRegister(f3, 1)
        f5  == StepRegister(f4, 2)
        f6  == StepRegister(f5, 3)
        f7  == StepSet(f6, 1, "hasLink", 2, 3)
        f8  == StepAddSubPort(f7, a, 1, "isSink", 3)
        f9  == StepAddSubPort(f8, a, 2, "isSource", 2)
        f10 == StepAddSubPort(f9, b, 1, "isSink", 2)
        f11 == StepAddSubPort(f10, b, 2, "isSource", 3)
    IN  StepMapAndReturn(f11, "bilink_biport_map", <<a, b>>)

\* The attribute values of an element and of its descendants.
RECURSIVE AttribValues(_)
AttribValues(t) ==
    {t.attrib[i].value : i \in 1..Len(t.attrib)} \cup
        UNION {AttribValues(t.children[i]) : i \in 1..Len(t.children)}

\* etree.tostring writes strings only: None and the unset object make it
\* raise TypeError.
Serializable(t) == AttribValues(t) \cap {PyNone, unset} = {}

\* The loop of export_nml: obj.as_nml(parent=root) for each registered
\* object, in the order of the namespace.
RECURSIVE ExportChildren(_, _)
ExportChildren(h, objs) ==
    IF objs = <<>> THEN [heap |-> h, err |-> "none", trees |-> <<>>]
    ELSE LET o == AsNml(h, Head(objs))
             rest == ExportChildren(o.heap, Tail(objs))
         IN  IF o.err # "none"
             THEN [heap |-> o.heap, err |-> o.err, trees |-> <<>>]
             ELSE [rest EXCEPT !.trees = <<o.tree>> \o @]

\* NMLManager.export_nml(): the document, kept as the element tree that
\* etree.tostring and minidom write out.
ExportNml(h, m) ==
    LET objs == [i \in 1..Len(m.namespace) |-> m.namespace[i].obj]
        body == ExportChildren(h, objs)
        root == Element("Namespace", <<Attr("xmlns:nml", NmlNamespace)>>,
                        body.trees)
    IN  IF body.err # "none" THEN RaiseTree(body.heap, body.err)
        ELSE IF ~Serializable(root) THEN RaiseTree(body.heap, "TypeError")
        ELSE ReturnTree(body.heap, root)

-----------------------------------------------------------------------------
(* Export scenario: a namespace is built with the helpers and exported *)

\* How many objects the export scenario constructs.
MaxExpObjects == 7

\* How many nodes the export scenario creates.
MaxExpNodes == 1

\* How many objects the export scenario constructs and registers by hand.
MaxExpBuilt == 1

\* The classes constructed and registered by hand.
ExpKinds == {"AdaptationService"}

ExpKeywords == {<<>>}

ExpInit ==
    /\ heap = <<>>
    /\ mgr = EmptyManager
    /\ last = NoCall

NewBiport(node) ==
    \E o \in {CreateBiport(heap, mgr, node, <<>>)} :
        /\ heap' = o.heap
        /\ mgr' = o.mgr
        /\ last' = Call("create_biport", NoObj, "", <<node>>, "", o)

NewBilink(a, b) ==
    \E o \in {CreateBilink(heap, mgr, a, b, <<>>)} :
        /\ heap' = o.heap
        /\ mgr' = o.mgr
        /\ last' = Call("create_bilink", NoObj, "", <<a, b>>, "", o)

Export ==
    \E o \in {ExportNml(heap, mgr)} :
        /\ heap' = o.heap
        /\ last' = TreeCall("export_nml", NoObj, o)
        /\ UNCHANGED mgr

OfKind(h, k) == {x \in Objects(h) : KindOf(h, x) = k}

ExpNext ==
    \/ /\ Len(heap) < MaxExpObjects
       /\ Cardinality(OfKind(heap, "Node")) < MaxExpNodes
       /\ \E kw \in ExpKeywords : NewNode(kw)
    \/ /\ Len(heap) + 3 <= MaxExpObjects
       /\ \E node \in OfKind(heap, "Node") : NewBiport(node)
    \/ /\ Len(heap) + 3 <= MaxExpObjects
       /\ \E a, b \in OfKind(heap, "BidirectionalPort") : NewBilink(a, b)
    \/ /\ Len(heap) < MaxExpObjects
       /\ Cardinality(UNION {OfKind(heap, k) : k \in ExpKinds}) < MaxExpBuilt
       /\ \E k \in ExpKinds : Build(k, <<>>)
    \/ \E x \in Objects(heap) : Register(x)
    \/ \E x \in Objects(heap) : Serialize(x)
    \/ Export

ExpSpec == ExpInit /\ [][ExpNext]_vars

-----------------------------------------------------------------------------
(* Properties of the export scenario *)

ExportOrder ==
    last.op = "export_nml" =>
        /\ last.err = "none"
        /\ Len(last.tree.children) = Len(mgr.namespace)
        /\ \A i \in 1..Len(mgr.namespace) :
               last.tree.children[i] = AsNml(heap, mgr.namespace[i].obj).tree

-----------------------------------------------------------------------------
(* Collections in the hands of the caller *)

\* A collection object the caller holds: an OrderedDict or a tuple, got
\* from relation rel of object `of`.  It is a collection of its own (a
\* copy), or else the very collection the object stores.
Collection(d, x, own, items) ==
    [kind  |-> IF d.width = 0 THEN "OrderedDict" ELSE "tuple",
     of    |-> x,
     rel   |-> d.name,
     own   |-> own,
     items |-> items]

Entities(h) == {x \in Objects(h) : KindOf(h, x) \in Kinds}

Collections(h) == Objects(h) \ Entities(h)

\* What the caller reads in collection c.
Items(h, c) ==
    IF h[c].own THEN h[c].items ELSE h[h[c].of].rels[h[c].rel]

\* The heap after the caller has written collection c.
WriteItems(h, c, items) ==
    IF h[c].own THEN [h EXCEPT ![c].items = items]
    ELSE [h EXCEPT ![h[c].of].rels[h[c].rel] = items]

\* A get_<relation> that returns the stored collection itself.
GetRelationAlias(h, x, r) ==
    Return(Append(h, Collection(Decl(KindOf(h, x), r), x, FALSE, <<>>)),
           PyNone, Len(h) + 1)

\* get_<relation>(): return copy(self._<relation>_<targets>)
GetRelation(h, x, r) ==
    Return(Append(h, Collection(Decl(KindOf(h, x), r), x, TRUE,
                                Snapshot(h, x, r))),
           PyNone, Len(h) + 1)

\* c[v.identifier] = v by the caller: a tuple does not support item
\* assignment.
SetItem(h, c, v) ==
    IF KindOf(h, c) = "tuple" THEN Raise(h, "TypeError")
    ELSE Return(WriteItems(h, c, Upsert(Items(h, c),
                                        h[v].attrs["identifier"], v)),
                PyNone, NoObj)

\* del c[key] by the caller
DelItem(h, c, key) ==
    LET s == Items(h, c)
    IN  IF KindOf(h, c) = "tuple" THEN Raise(h, "TypeError")
        ELSE IF ~HasKey(s, key) THEN Raise(h, "KeyError")
        ELSE Return(WriteItems(h, c, SelectSeq(s, LAMBDA e : e.key # key)),
                    PyNone, NoObj)

-----------------------------------------------------------------------------
(* Snapshot scenario: relations are read, changed, and the copies written *)

\* How many collections the caller gets.
MaxSnapshots == 1

SnapKeys == {"urn:p", "urn:q"}

\* The relations the scenario reads and changes: one kept in an OrderedDict,
\* one in a tuple of two and one in a tuple of one.
SnapRelations(k) ==
    RelationNames(k) \cap {"hasInboundPort", "hasPort", "locatedAt"}

\* A node, two ports and a location; a bidirectional port and two ports.
SnapCasts ==
    {<<Plain("Node"), Identified("Port", "urn:p"), Plain("Location"),
       Identified("Port", "urn:q")>>,
     <<Plain("BidirectionalPort"), Identified("Port", "urn:p"),
       Identified("Port", "urn:q")>>}

SnapInit ==
    /\ \E cast \in SnapCasts : heap = Built(<<>>, cast)
    /\ mgr = EmptyManager
    /\ last = NoCall

GetSnapshot(x, r) ==
    /\ \E o \in {GetRelation(heap, x, r)} :
           /\ heap' = o.heap
           /\ last' = Call("get", x, r, <<>>, "", o)
    /\ UNCHANGED mgr

CallerSets(c, v) ==
    /\ \E o \in {SetItem(heap, c, v)} :
           /\ heap' = o.heap
           /\ last' = Call("setitem", c, "", <<v>>, "", o)
    /\ UNCHANGED mgr

CallerDeletes(c, key) ==
    /\ \E o \in {DelItem(heap, c, key)} :
           /\ heap' = o.heap
           /\ last' = Call("delitem", c, "", <<>>, key, o)
    /\ UNCHANGED mgr

SnapNext ==
    \/ /\ Cardinality(Collections(heap)) < MaxSnapshots
       /\ \E r \in SnapRelations(KindOf(heap, Subject)) : GetSnapshot(Subject, r)
    \/ \E r \in SnapRelations(KindOf(heap, Subject)), c \in Entities(heap) :
           Add(Subject, r, c)
    \/ \E r \in SnapRelations(KindOf(heap, Subject)), c \in Entities(heap) :
           Set(Subject, r, <<c>>)
    \/ \E r \in SnapRelations(KindOf(heap, Subject)), c1, c2 \in Entities(heap) :
           Set(Subject, r, <<c1, c2>>)
    \/ \E c \in Collections(heap), v \in Entities(heap) \ {Subject} :
           CallerSets(c, v)
    \/ \E c \in Collections(heap), key \in SnapKeys : CallerDeletes(c, key)

SnapSpec == SnapInit /\ [][SnapNext]_vars

\* C20: an add_<relation> or set_<relation> call leaves every collection a
\* get_<relation> call returned earlier as it was, and a caller writing or
\* deleting an entry of such a collection leaves every object, its stored
\* relations included, as it was.
SnapshotIsolation ==
    [][/\ last'.op \in {"add", "set"} =>
              \A c \in Collections(heap) : Items(heap', c) = Items(heap, c)
       /\ last'.op \in {"setitem", "delitem"} =>
              \A x \in Entities(heap) : heap'[x] = heap[x]]_vars

\* A port was added to a relation of the node after the caller had got that
\* relation with one port in it: the collection still holds one port, the
\* node two.
SnapshotIsolationWitness ==
    /\ last.op = "add"
    /\ last.err = "none"
    /\ \E c \in Collections(heap) :
           /\ heap[c].of = last.self
           /\ heap[c].rel = last.name
           /\ Len(Items(heap, c)) = 1
           /\ Len(heap[last.self].rels[last.name]) = 2

-----------------------------------------------------------------------------
(* The environment helper and the iterators of ExtendedNMLManager *)

\* ExtendedNMLManager.create_environment(**kw): the identifier keyword is
\* forced to 'env', the object is constructed and registered, and then
\* assigned to the environment property, which has a getter only.
CreateEnvironment(h, m, kw) ==
    LET f1 == StepNew(Frame(h, m), "Environment",
                      [a \in DOMAIN kw \cup {"identifier"} |->
                          IF a = "identifier" THEN "env" ELSE kw[a]])
        f2 == StepRegister(f1, 1)
    IN  CHOOSE g \in {IF v.err # "none" THEN MRaise(v.heap, v.mgr, v.err)
                      ELSE MRaise(v.heap, v.mgr, "AttributeError")
                      : v \in {f2}} : TRUE

\* list(ExtendedNMLManager.biports()): (node, self.namespace[biport_id]) for
\* each entry of the biport map
Biports(m) ==
    [i \in 1..Len(m.biport_node_map) |->
        <<m.biport_node_map[i].obj,
          m.namespace[IndexOfKey(m.namespace, m.biport_node_map[i].key)].obj>>]

-----------------------------------------------------------------------------
(* Helper scenario: a namespace is built with the helpers alone *)

\* How many objects the helper scenario constructs.
MaxHelperObjects == 10

\* How many nodes the helper scenario creates.
MaxHelperNodes == 2

\* A node is created without keywords or with an identifier.
HelperKeywords == {<<>>, [identifier |-> "urn:a"]}

NewEnvironment ==
    \E o \in {CreateEnvironment(heap, mgr, <<>>)} :
        /\ heap' = o.heap
        /\ mgr' = o.mgr
        /\ last' = Call("create_environment", NoObj, "", <<>>, "", o)

HelperNext ==
    \/ /\ Len(heap) < MaxHelperObjects
       /\ Cardinality(OfKind(heap, "Node")) < MaxHelperNodes
       /\ \E kw \in HelperKeywords : NewNode(kw)
    \/ /\ Len(heap) + 3 <= MaxHelperObjects
       /\ \E node \in Objects(heap) : NewBiport(node)
    \/ /\ Len(heap) + 3 <= MaxHelperObjects
       /\ \E a, b \in Objects(heap) : NewBilink(a, b)
    \/ /\ Len(heap) < MaxHelperObjects
       /\ OfKind(heap, "Environment") = {}
       /\ NewEnvironment
    \/ Export

HelperSpec == ExpInit /\ [][HelperNext]_vars

-----------------------------------------------------------------------------
(* Properties of the helper scenario *)

\* C21: after create_biport(node) has returned, the namespace ends with the
\* returned bidirectional port and two ports created by the call, in that
\* order; hasPort of the bidirectional port is (inbound port, outbound
\* port); the inbound port is in hasInboundPort of node and the outbound
\* port in hasOutboundPort; and the last pair biports() yields is
\* (node, bidirectional port).
BiportWiring ==
    (last.op = "create_biport" /\ last.err = "none") =>
        LET n      == Len(mgr.namespace)
            node   == last.args[1]
            biport == Len(heap) - 2
            inp    == Len(heap) - 1
            out    == Len(heap)
            pairs  == Biports(mgr)
        IN  /\ last.obj = biport
            /\ KindOf(heap, biport) = "BidirectionalPort"
            /\ KindOf(heap, inp) = "Port"
            /\ KindOf(heap, out) = "Port"
            /\ n >= 3
            /\ <<mgr.namespace[n - 2].obj, mgr.namespace[n - 1].obj,
                 mgr.namespace[n].obj>> = <<biport, inp, out>>
            /\ heap[biport].rels["hasPort"] = <<inp, out>>
            /\ Related(heap, node, "hasInboundPort", inp)
            /\ Related(heap, node, "hasOutboundPort", out)
            /\ pairs # <<>>
            /\ pairs[Len(pairs)] = <<node, biport>>

\* A second bidirectional port was created on a node.
BiportWiringWitness ==
    /\ last.op = "create_biport"
    /\ last.err = "none"
    /\ Len(Biports(mgr)) = 2
    /\ Biports(mgr)[1][1] = last.args[1]
    /\ Biports(mgr)[2][1] = last.args[1]

\* The bidirectional ports the biport map holds: those create_biport made.
MadeBiports == {Biports(mgr)[i][2] : i \in 1..Len(Biports(mgr))}

\* The ports that hold link l in relation r.
PortsHolding(r, l) == {p \in OfKind(heap, "Port") : Related(heap, p, r, l)}

\* The state after a create_bilink that returned, on bidirectional ports
\* that create_biport made: the three new objects are registered, hasLink
\* is (link_a_b, link_b_a), and each link has the outbound port of one side
\* as its only source and the inbound port of the other side as its only
\* sink.
BilinkWired ==
    LET n      == Len(mgr.namespace)
        a      == heap[last.args[1]].rels["hasPort"]
        b      == heap[last.args[2]].rels["hasPort"]
        bilink == Len(heap) - 2
        ab     == Len(heap) - 1
        ba     == Len(heap)
    IN  /\ last.obj = bilink
        /\ KindOf(heap, bilink) = "BidirectionalLink"
        /\ KindOf(heap, ab) = "Link"
        /\ KindOf(heap, ba) = "Link"
        /\ n >= 3
        /\ <<mgr.namespace[n - 2].obj, mgr.namespace[n - 1].obj,
             mgr.namespace[n].obj>> = <<bilink, ab, ba>>
        /\ heap[bilink].rels["hasLink"] = <<ab, ba>>
        /\ PortsHolding("isSource", ab) = {a[2]}
        /\ PortsHolding("isSink", ab) = {b[1]}
        /\ PortsHolding("isSource", ba) = {b[2]}
        /\ PortsHolding("isSink", ba) = {a[1]}

BilinkReturned ==
    /\ last.op = "create_bilink"
    /\ last.err = "none"
    /\ {last.args[1], last.args[2]} \subseteq MadeBiports

\* The source port and the sink port of each of the two new links belong to
\* different bidirectional ports.
OppositeBiports ==
    \A l \in {Len(heap) - 1, Len(heap)} :
        \A x \in OfKind(heap, "BidirectionalPort") :
            ~(\E i, j \in 1..2 :
                  /\ heap[x].rels["hasPort"][i] \in PortsHolding("isSource", l)
                  /\ heap[x].rels["hasPort"][j] \in PortsHolding("isSink", l))

\* C22, as stated: create_bilink wires the links as described and each link
\* has its source and its sink on opposite bidirectional ports.
BilinkWiringOpposite == BilinkReturned => (BilinkWired /\ OppositeBiports)

\* C22: create_bilink wires the links as described; the source and the sink
\* of each link are on opposite bidirectional ports exactly when biport_a
\* and biport_b are distinct.
BilinkWiring ==
    BilinkReturned =>
        /\ BilinkWired
        /\ OppositeBiports <=> (last.args[1] # last.args[2])

\* Two distinct bidirectional ports of a node were linked.
BilinkWiringWitness ==
    /\ BilinkReturned
    /\ last.args[1] # last.args[2]
    /\ Len(mgr.bilink_biport_map) = 1

\* C23: create_environment returns a new Environment that get_object('env')
\* finds in the namespace and that the environment property returns.
EnvironmentRegistered ==
    last.op = "create_environment" =>
        /\ last.err = "none"
        /\ last.obj # NoObj
        /\ GetObject(heap, mgr, "env").obj = last.obj
        /\ mgr.environment = last.obj

-----------------------------------------------------------------------------
(* Further properties of the attribute scenario *)

\* C24: an assignment of the unset object to an attribute returns and
\* leaves the attribute unset.
UnsetAccepted ==
    (last.op = "setattr" /\ last.val = unset) =>
        /\ last.err = "none"
        /\ heap[last.self].attrs[last.name] = unset

\* The identifier of an object whose name is set was assigned the unset
\* object.
UnsetAcceptedWitness ==
    /\ last.op = "setattr"
    /\ last.val = unset
    /\ last.name = "identifier"
    /\ heap[last.self].attrs["identifier"] = unset
    /\ heap[last.self].attrs["name"] # unset

-----------------------------------------------------------------------------
(* Further properties of the relation scenario *)

\* C25: every object a relation holds, as a value of its OrderedDict or in
\* a slot of its tuple that is not None, is of a class the relation allows.
RelationKindInvariant ==
    \A x \in Objects(heap) : \A r \in RelationNames(KindOf(heap, x)) :
        LET d == Decl(KindOf(heap, x), r)
            t == Targets(d, heap[x].rels[r])
        IN  \A i \in 1..Len(t) :
                t[i] # NoObj => KindOf(heap, t[i]) \in d.allowed

\* A relation holds two objects of different allowed classes after a call
\* with an object of a foreign class was refused.
RelationKindInvariantWitness ==
    /\ last.op \in {"add", "set"}
    /\ OutsideAllowed(heap, last)
    /\ last.err # "none"
    /\ LET d == Decl(KindOf(heap, last.self), last.name)
           t == Targets(d, heap[last.self].rels[last.name])
       IN  /\ Len(t) = 2
           /\ t[1] # NoObj
           /\ t[2] # NoObj
           /\ KindOf(heap, t[1]) # KindOf(heap, t[2])

-----------------------------------------------------------------------------
(* Further properties of the attribute scenario: validity *)

\* C26: the name of every object is unset or a non-empty string, and its
\* identifier and its encoding are unset or valid URIs, whether the
\* constructor filled them in or a setter stored them.
AttributeValidity ==
    \A x \in Objects(heap) :
        /\ (KindOf(heap, x) \in NameKinds) =>
               /\ heap[x].attrs["name"] = unset \/ ~Falsy(heap[x].attrs["name"])
               /\ \/ heap[x].attrs["identifier"] = unset
                  \/ IsValidUri(heap[x].attrs["identifier"])
        /\ (KindOf(heap, x) \in EncodingKinds) =>
               \/ heap[x].attrs["encoding"] = unset
               \/ IsValidUri(heap[x].attrs["encoding"])

\* An invalid URI was refused as the encoding of an object that keeps the
\* name and the identifier its constructor gave it.
AttributeValidityWitness ==
    /\ last.op = "setattr"
    /\ last.name = "encoding"
    /\ last.val \in InvalidUris
    /\ last.err = "AttributeEncodingError"
    /\ heap[last.self].attrs["name"] = KindOf(heap, last.self) \o "(1)"
    /\ heap[last.self].attrs["identifier"] = IdString(1)

\* C27: the check of a relation, called with a candidate of an allowed
\* class, returns True when the candidate is one of the objects the relation
\* holds and False when it is not.
CheckReportsRelated ==
    (last.op = "check" /\ ~OutsideAllowed(heap, last)) =>
        LET d == Decl(KindOf(heap, last.self), last.name)
            t == Targets(d, Snapshot(heap, last.self, last.name))
        IN  /\ last.err = "none"
            /\ last.ret = Bool(\E i \in 1..Len(t) : t[i] = last.args[1])

-----------------------------------------------------------------------------
(* Further properties of the helper scenario *)

\* C28: a create_node, create_biport or create_bilink call that raises
\* leaves the namespace and the maps of the manager and the relations of
\* the objects that existed before the call as they were.
HelperAtomicity ==
    [][(last'.op \in {"create_node", "create_biport", "create_bilink"}
           /\ last'.err # "none")
          => /\ mgr' = mgr
             /\ \A x \in Objects(heap) : heap'[x].rels = heap[x].rels]_vars

\* The keys of an OrderedDict.
Keys(s) == {s[i].key : i \in 1..Len(s)}

\* C29: no step removes an object, an entry of the namespace or a key of a
\* relation kept in an OrderedDict; the namespace is only extended at its
\* end.
GraphOnlyGrows ==
    [][/\ Len(heap') >= Len(heap)
       /\ Len(mgr'.namespace) >= Len(mgr.namespace)
       /\ SubSeq(mgr'.namespace, 1, Len(mgr.namespace)) = mgr.namespace
       /\ \A x \in Objects(heap) :
              /\ KindOf(heap', x) = KindOf(heap, x)
              /\ \A r \in RelationNames(KindOf(heap, x)) :
                     Decl(KindOf(heap, x), r).width = 0 =>
                         Keys(heap[x].rels[r]) \subseteq Keys(heap'[x].rels[r])
      ]_vars

\* A create_node with an identifier already registered was refused in a
\* namespace of five objects whose first node has two inbound ports.
GraphOnlyGrowsWitness ==
    /\ last.op = "create_node"
    /\ last.err = "Exception"
    /\ Len(mgr.namespace) >= 5
    /\ \E x \in OfKind(heap, "Node") :
           Cardinality(Keys(heap[x].rels["hasInboundPort"])) = 2

\* The values of the attributes `id` and `identifier` of an element.
IdsOf(e) ==
    {e.attrib[i].value : i \in {j \in 1..Len(e.attrib) :
                                   e.attrib[j].name \in {"id", "identifier"}}}

\* The ids the reference children of a top-level element carry.
ReferencedIds(e) ==
    UNION {UNION {IdsOf(e.children[w].children[i]) :
                      i \in 1..Len(e.children[w].children)} :
               w \in 1..Len(e.children)}

\* C30: every object a relation of a registered object holds is registered,
\* and every id a reference child of an exported document carries is the
\* identifier of a top-level element of the document.
ReferentialIntegrity ==
    /\ \A x \in Registered(mgr) : \A r \in RelationNames(KindOf(heap, x)) :
           LET t == Targets(Decl(KindOf(heap, x), r), heap[x].rels[r])
           IN  \A i \in 1..Len(t) : t[i] # NoObj => t[i] \in Registered(mgr)
    /\ (last.op = "export_nml" /\ last.err = "none") =>
           LET top == last.tree.children
           IN  \A i \in 1..Len(top) :
                   ReferencedIds(top[i]) \subseteq
                       UNION {IdsOf(top[j]) : j \in 1..Len(top)}

\* A namespace with a node, two bidirectional ports and a bidirectional
\* link between them was exported.
ReferentialIntegrityWitness ==
    /\ last.op = "export_nml"
    /\ last.err = "none"
    /\ Len(mgr.namespace) = 10
    /\ Len(mgr.bilink_biport_map) = 1
    /\ \E i \in 1..Len(last.tree.children) :
           Cardinality(ReferencedIds(last.tree.children[i])) = 2

====
